---- MODULE Spec2Model ----
(***************************************************************************)
(* The active-evidence-aggregation agent of MultiView-Bench:               *)
(*   src/agent/belief_state.py  BeliefState (Dirichlet pseudo-counts)      *)
(*   src/agent/verifier.py      parse_answer, parse_answer_json,           *)
(*                              check_answer                               *)
(*   src/agent/utils.py         generate_jitter_offsets                    *)
(*   src/agent/agent_main.py    Agent.run (the control loop)               *)
(*                                                                         *)
(* Specifications.                                                         *)
(*   Spec, FairSpec  one call of Agent.run on a fresh Agent                *)
(*   BeliefSpec      a client calling the methods of a BeliefState         *)
(*   RepeatSpec      a client giving one tally to update again and again   *)
(*   ParserSpec      a client calling a function of verifier on a text     *)
(*                                                                         *)
(* Numbers.  Python floats are modelled as exact rationals wherever the    *)
(* code only adds, multiplies, divides and compares; the two irrational    *)
(* functions it calls (math.sqrt, math.log) are quantised:                 *)
(*   - a confidence is an integer count of 1/ONE,                          *)
(*   - a pseudo-count is an integer count of 1/Unit, Unit = ONE * DEN,     *)
(*     DEN a common multiple of every n + 3*lam that can occur, so that    *)
(*     neff * (k + lam) / (n + 3*lam) is exact,                            *)
(*   - a probability or a threshold is a pair <<num, den>>.                *)
(* Texts are sequences of one-character strings, with the two tags         *)
(* "<answer>" and "</answer>" as single tokens.                            *)
(***************************************************************************)
EXTENDS Integers, Sequences, FiniteSets, TLC

\* ---------------------------------------------------------------- bounds
\* largest max_steps passed to Agent.run
MaxSteps == 3
\* largest jitter_size passed to Agent.run
MaxJitter == 1
\* largest number of votes on one axis in a tally given to BeliefState.update
MaxTally == 3
\* largest number of update calls made by the BeliefState client
MaxUpdates == 2
\* largest number of comma-separated items in a text given to the parser
MaxParts == 2
\* largest number of update calls made by the client repeating one tally
MaxRepeats == 5
\* a confidence is quantised to 1/ONE
ONE == 1000
\* number of fractional bits of the quantised logarithm
LogBits == 10

\* ------------------------------------------------------ program constants
\* BeliefState.__init__ defaults
lam == 1
gamma == 1
\* z = 1.96 = ZNum / ZDen
ZNum == 49
ZDen == 25
\* generate_jitter_offsets(m=jitter_size, r_az=3, r_el=3)
r_az == 3
r_el == 3

Axes == <<"X", "Y", "Z">>
Signs == <<"+", "0", "-">>
AxisSet == {"X", "Y", "Z"}
SignSet == {"+", "0", "-"}

\* ------------------------------------------------------------ arithmetic
Max(a, b) == IF a >= b THEN a ELSE b

RECURSIVE Gcd(_, _)
Gcd(a, b) == IF b = 0 THEN a ELSE Gcd(b, a % b)

Lcm(a, b) == (a \div Gcd(a, b)) * b

RECURSIVE LcmUpTo(_)
\* a common multiple of n + 3*lam for n = 1 .. m
LcmUpTo(m) == IF m = 0 THEN 1 ELSE Lcm(LcmUpTo(m - 1), m + 3 * lam)

\* a tally {'+': p, '0': z, '-': m}
Counts(p, z, m) ==
    [s \in SignSet |-> IF s = "+" THEN p ELSE IF s = "0" THEN z ELSE m]

\* the tally of the end-to-end scenario: X nine '+' and one '0', Y ten '0',
\* Z five '+' and five '-'
ScenarioTally ==
    [X |-> Counts(9, 1, 0), Y |-> Counts(0, 10, 0), Z |-> Counts(5, 0, 5)]

\* the number of votes on each axis of the scenario's tally
ScenarioVotes ==
    ScenarioTally["X"]["+"] + ScenarioTally["X"]["0"] + ScenarioTally["X"]["-"]

\* the largest tally total of a run or of a BeliefState client
MaxN == Max(MaxTally, MaxJitter + 1)
DEN == Lcm(LcmUpTo(MaxN), ScenarioVotes + 3 * lam)
\* one unit of pseudo-count: the float 1.0
Unit == ONE * DEN
\* the square root is quantised to 1/SQ
SQ == 10 * ONE

\* floor(a * b / c) without forming a * b
MulDiv(a, b, c) == (a \div c) * b + ((a % c) * b) \div c

RECURSIVE SqrtSearch(_, _, _)
\* the largest r' >= r with r' * r' <= x, its bits from b down still open
SqrtSearch(x, r, b) ==
    IF b = 0 THEN r
    ELSE IF (r + b) * (r + b) <= x THEN SqrtSearch(x, r + b, b \div 2)
         ELSE SqrtSearch(x, r, b \div 2)

\* math.sqrt on integers below 2^30: the largest r with r * r <= x
ISqrt(x) == SqrtSearch(x, 0, 16384)

RECURSIVE Pow2(_)
Pow2(e) == IF e = 0 THEN 1 ELSE 2 * Pow2(e - 1)

RECURSIVE FloorLog2(_)
FloorLog2(m) == IF m < 2 THEN 0 ELSE 1 + FloorLog2(m \div 2)

\* the mantissa of the logarithm is kept in units of 1/Mant
Mant == Pow2(14)

RECURSIVE FracBits(_, _)
\* the first i fractional bits of log2(x / Mant), Mant <= x < 2 Mant, by
\* repeated squaring
FracBits(x, i) ==
    IF i = 0 THEN 0
    ELSE LET x2 == (x * x) \div Mant
         IN  IF x2 >= 2 * Mant THEN Pow2(i - 1) + FracBits(x2 \div 2, i - 1)
             ELSE FracBits(x2, i - 1)

\* log2(m) for an integer m >= 1, in units of 1/2^LogBits
LogQ(m) ==
    LET e == FloorLog2(m)
    IN  e * Pow2(LogBits) + FracBits((m * Mant) \div Pow2(e), LogBits)

\* LogQ on the integers the model takes logarithms of, computed once
LogTable == [m \in 1..(Max(MaxN, ScenarioVotes) + 3 * lam) |-> LogQ(m)]

\* a rational <<a, b>> in lowest terms (what the float division a / b denotes)
Ratio(a, b) == LET g == Gcd(a, b) IN <<a \div g, b \div g>>

\* math.log(p) for a rational p, up to the common factor ln 2 / 2^LogBits;
\* the code only uses the quotient H / Hmax of two logarithms
MathLog(p) == LogTable[p[1]] - LogTable[p[2]]

RECURSIVE PowQ(_, _)
\* c ** g for a confidence c (units of 1/ONE) and an integer exponent g
PowQ(c, g) == IF g = 0 THEN ONE ELSE (c * PowQ(c, g - 1)) \div ONE

RECURSIVE FracLE(_, _, _, _)
\* a / b <= c / d for a, c >= 0 and b, d > 0, by comparing the whole parts
\* and then the inverted remainders, so that no product is formed
FracLE(a, b, c, d) ==
    IF a \div b # c \div d THEN a \div b < c \div d
    ELSE IF a % b = 0 THEN TRUE
    ELSE IF c % d = 0 THEN FALSE
    ELSE FracLE(d, c % d, b, a % b)

\* p <= q for rationals with positive denominators
RatLE(p, q) == FracLE(p[1], p[2], q[1], q[2])

\* ----------------------------------------------------------- BeliefState
\* BeliefState.__init__: alpha[A][s] = lam
InitAlpha == [A \in AxisSet |-> [s \in SignSet |-> lam * Unit]]

TallyN(counts) == counts["+"] + counts["0"] + counts["-"]

\* the share kmax / n of the majority taken for its lower bound
wilson_lb_point(n, kmax) == <<kmax * SQ, n * SQ>>

\* BeliefState._wilson_neff, lines 19-22: the lower bound lb of the Wilson
\* interval for kmax of n > 0 votes, as the rational <<lbnum, lbden>>.
\* With phat = kmax / n and z = ZNum / ZDen, multiplying numerator and
\* denominator of lb by n:
\*   lb = (kmax + z^2/2 - z * root) / (n + z^2),
\*   root = sqrt(kmax * (n - kmax) / n + z^2 / 4)
\*        = sqrt((4 ZDen^2 kmax (n - kmax) + ZNum^2 n) / (4 ZDen^2 n)).
wilson_lb(n, kmax) ==
    LET radicand == 4 * ZDen * ZDen * kmax * (n - kmax) + ZNum * ZNum * n
        root == ISqrt(MulDiv(radicand, (SQ * SQ) \div (4 * ZDen * ZDen), n))
        lbnum == (kmax * SQ + (ZNum * ZNum * SQ) \div (2 * ZDen * ZDen)
                  - (ZNum * root) \div ZDen) * ZDen * ZDen
        lbden == SQ * (ZDen * ZDen * n + ZNum * ZNum)
    IN  <<lbnum, lbden>>

\* the confidence taken to be the lower bound itself
wilson_confidence_unscaled(lb) ==
    PowQ(Max(0, lb[1] \div (lb[2] \div ONE)), gamma)

\* the confidence without its two clamps: (lb - 1/3) / (2/3)
wilson_confidence_unclamped(lb) ==
    PowQ((3 * lb[1] - lb[2]) \div (2 * (lb[2] \div ONE)), gamma)

\* BeliefState._wilson_neff, line 24: the confidence, in units of 1/ONE.
\* (max(lb, 1/3) - 1/3) / (2/3) = (3 lb - 1) / 2 when lb > 1/3, else 0
wilson_confidence(lb) ==
    LET scaled == IF 3 * lb[1] <= lb[2] THEN 0
                  ELSE (3 * lb[1] - lb[2]) \div (2 * (lb[2] \div ONE))
    IN  PowQ(Max(0, scaled), gamma)

\* _wilson_neff taking the share of '+' for the majority's share
wilson_bound_plus_share(counts) ==
    LET kplus == counts["+"]
        kzero == counts["0"]
        kminus == counts["-"]
        n == kplus + kzero + kminus
        confidence == wilson_confidence(wilson_lb(n, kplus))
        neff == n * confidence
    IN  <<neff, confidence>>

\* BeliefState._wilson_neff for n > 0: <<neff, confidence>>, both in units
\* of 1/ONE
wilson_bound(counts) ==
    LET kplus == counts["+"]
        kzero == counts["0"]
        kminus == counts["-"]
        n == kplus + kzero + kminus
        kmax == Max(kplus, Max(kzero, kminus))
        confidence == wilson_confidence(wilson_lb(n, kmax))
        neff == n * confidence
    IN  <<neff, confidence>>

\* _wilson_neff returning full confidence for an empty tally
wilson_neff_empty_sure(counts) ==
    IF TallyN(counts) = 0 THEN <<0, ONE>> ELSE wilson_bound(counts)

\* BeliefState._wilson_neff: if n == 0: return 0.0, 0.0
wilson_neff(counts) ==
    IF TallyN(counts) = 0 THEN <<0, 0>> ELSE wilson_bound(counts)

\* BeliefState._entropy_neff: <<neff, confidence>>, both in units of 1/ONE.
\* H = -sum p_s log p_s with p_s = (k_s + lam) / (n + 3 lam), so
\* H = hnum / (n + 3 lam) with hnum = -sum (k_s + lam) log p_s.
entropy_neff(counts) ==
    LET kplus == counts["+"]
        kzero == counts["0"]
        kminus == counts["-"]
        n == kplus + kzero + kminus
        den == n + 3 * lam
        term(s) == (counts[s] + lam) * MathLog(Ratio(counts[s] + lam, den))
        hnum == 0 - (term("+") + term("0") + term("-"))
        Hmax == MathLog(<<3, 1>>)
        confidence == PowQ((ONE * (den * Hmax - hnum)) \div (den * Hmax), gamma)
        neff == n * confidence
    IN  IF n = 0 THEN <<0, 0>> ELSE <<neff, confidence>>

method_neff(meth, counts) ==
    IF meth = "wilson" THEN wilson_neff(counts) ELSE entropy_neff(counts)

\* update assigning the weighted evidence to alpha instead of adding it
update_axis_assign(a, meth, counts) ==
    LET neff == method_neff(meth, counts)[1]
        n == TallyN(counts)
        add(s) == neff * (counts[s] + lam) * (DEN \div (n + 3 * lam))
    IN  IF n > 0 /\ neff > 0
        THEN [a EXCEPT !["+"] = add("+"), !["0"] = add("0"), !["-"] = add("-")]
        ELSE a

\* update adding the raw proportions k_s / n instead of the smoothed ones
update_axis_raw_share(a, meth, counts) ==
    LET neff == method_neff(meth, counts)[1]
        n == TallyN(counts)
        add(s) == (neff * counts[s] * DEN) \div n
    IN  IF n > 0 /\ neff > 0
        THEN [a EXCEPT !["+"] = @ + add("+"), !["0"] = @ + add("0"),
                       !["-"] = @ + add("-")]
        ELSE a

\* update adding the smoothed proportions with the weight of all n votes
update_axis_full_weight(a, meth, counts) ==
    LET neff == method_neff(meth, counts)[1]
        n == TallyN(counts)
        add(s) == n * ONE * (counts[s] + lam) * (DEN \div (n + 3 * lam))
    IN  IF n > 0 /\ neff > 0
        THEN [a EXCEPT !["+"] = @ + add("+"), !["0"] = @ + add("0"),
                       !["-"] = @ + add("-")]
        ELSE a

\* BeliefState.update, one axis: the pseudo-counts after the axis's tally.
\* neff * p_hat[s] = neff * (k_s + lam) / (n + 3 lam), in units of 1/Unit.
update_axis(a, meth, counts) ==
    LET neff == method_neff(meth, counts)[1]
        n == TallyN(counts)
        add(s) == neff * (counts[s] + lam) * (DEN \div (n + 3 * lam))
    IN  IF n > 0 /\ neff > 0
        THEN [a EXCEPT !["+"] = @ + add("+"), !["0"] = @ + add("0"),
                       !["-"] = @ + add("-")]
        ELSE a

\* BeliefState.update: the new alpha and the returned confidence_scores
update(al, meth, counts) ==
    [alpha |-> [X |-> update_axis(al["X"], meth, counts["X"]),
                Y |-> update_axis(al["Y"], meth, counts["Y"]),
                Z |-> update_axis(al["Z"], meth, counts["Z"])],
     confidence_scores |-> [X |-> method_neff(meth, counts["X"])[2],
                            Y |-> method_neff(meth, counts["Y"])[2],
                            Z |-> method_neff(meth, counts["Z"])[2]]]

AlphaSum(a) == a["+"] + a["0"] + a["-"]

\* get_posterior normalising by the sum of '+' and '-' only
get_posterior_two_signs(al) ==
    [A \in AxisSet |-> [s \in SignSet |-> <<al[A][s], al[A]["+"] + al[A]["-"]>>]]

\* BeliefState.get_posterior: post[A][s] = alpha[A][s] / ssum
get_posterior(al) ==
    [A \in AxisSet |-> [s \in SignSet |-> <<al[A][s], AlphaSum(al[A])>>]]

RECURSIVE MaxItemLastWins(_, _, _)
\* max keeping the last maximal item instead of the first
MaxItemLastWins(probs, i, best) ==
    IF i > Len(Signs) THEN best
    ELSE IF RatLE(probs[best], probs[Signs[i]])
         THEN MaxItemLastWins(probs, i + 1, Signs[i])
         ELSE MaxItemLastWins(probs, i + 1, best)

RECURSIVE MaxItem(_, _, _)
\* max(probs.items(), key=lambda x: x[1]): the first maximal item in the
\* dict's order '+', '0', '-'
MaxItem(probs, i, best) ==
    IF i > Len(Signs) THEN best
    ELSE IF RatLE(probs[Signs[i]], probs[best]) THEN MaxItem(probs, i + 1, best)
         ELSE MaxItem(probs, i + 1, Signs[i])

\* BeliefState.get_decision: <<decision, top_ps>>
get_decision(al) ==
    LET post == get_posterior(al)
        top(A) == MaxItem(post[A], 2, Signs[1])
    IN  <<[X |-> top("X"), Y |-> top("Y"), Z |-> top("Z")],
          [X |-> post["X"][top("X")], Y |-> post["Y"][top("Y")],
           Z |-> post["Z"][top("Z")]]>>

\* should_stop with ok assigned on every axis, so that the last axis decides
StopLoopLastAxis(al, top_ps, tau_, kappa, i, ok) ==
    LET A == Axes[Len(Axes)]
    IN  RatLE(tau_, top_ps[A]) /\ RatLE(kappa, <<AlphaSum(al[A]), Unit>>)

RECURSIVE StopLoop(_, _, _, _, _, _)
\* the loop of should_stop over ['X', 'Y', 'Z'] with its flag ok;
\* kappa_min is compared with the float sum, AlphaSum / Unit
StopLoop(al, top_ps, tau_, kappa, i, ok) ==
    IF i > Len(Axes) THEN ok
    ELSE LET A == Axes[i]
             pass == RatLE(tau_, top_ps[A])
                     /\ RatLE(kappa, <<AlphaSum(al[A]), Unit>>)
         IN  StopLoop(al, top_ps, tau_, kappa, i + 1, IF ~pass THEN FALSE ELSE ok)

\* BeliefState.should_stop: <<ok, decision>>
should_stop(al, tau_, kappa) ==
    LET d == get_decision(al)
    IN  <<StopLoop(al, d[2], tau_, kappa, 1, TRUE), d[1]>>

\* ---------------------------------------------------------------- texts
\* str.strip() and the regex class \s
IsWS(c) == c \in {" ", "\n", "\t"}

RECURSIVE LStrip(_)
LStrip(t) == IF t # <<>> /\ IsWS(Head(t)) THEN LStrip(Tail(t)) ELSE t

RECURSIVE RStrip(_)
RStrip(t) ==
    IF t # <<>> /\ IsWS(t[Len(t)]) THEN RStrip(SubSeq(t, 1, Len(t) - 1)) ELSE t

Strip(t) == RStrip(LStrip(t))

Range(t) == {t[i] : i \in 1..Len(t)}

\* the first index >= from of tok in t, 0 when there is none
FirstIndex(t, tok, from) ==
    LET hits == {j \in from..Len(t) : t[j] = tok}
    IN  IF hits = {} THEN 0 ELSE CHOOSE j \in hits : \A k \in hits : j <= k

\* re.search(r"<answer>\s*(.*?)\s*</answer>", response): '.' does not match
\* a newline, so an opening tag matches only when the text up to the next
\* closing tag, stripped, holds no newline; the leftmost such tag wins.
\* <<matched, group(1)>>
AnswerSearch(response) ==
    LET close(i) == FirstIndex(response, "</answer>", i + 1)
        body(i) == Strip(SubSeq(response, i + 1, close(i) - 1))
        starts == {i \in 1..Len(response) :
                      /\ response[i] = "<answer>"
                      /\ close(i) # 0
                      /\ "\n" \notin Range(body(i))}
    IN  IF starts = {} THEN <<FALSE, <<>>>>
        ELSE <<TRUE, body(CHOOSE i \in starts : \A k \in starts : i <= k)>>

RECURSIVE SplitComma(_, _, _)
\* content.split(","): cur is the part being read, acc the parts read
SplitComma(t, cur, acc) ==
    IF t = <<>> THEN Append(acc, cur)
    ELSE IF Head(t) = "," THEN SplitComma(Tail(t), <<>>, Append(acc, cur))
         ELSE SplitComma(Tail(t), Append(cur, Head(t)), acc)

RECURSIVE BuildLabels(_, _, _)
\* the loop over parts: re.match(r"^([+\-0])([XYZ])$", part) after
\* p.strip(), empty parts dropped; result[axis] = sign
BuildLabels(parts, i, result) ==
    IF i > Len(parts) THEN result
    ELSE LET part == Strip(parts[i])
             mm == Len(part) = 2 /\ part[1] \in SignSet /\ part[2] \in AxisSet
         IN  IF mm
             THEN BuildLabels(parts, i + 1, (part[2] :> part[1]) @@ result)
             ELSE BuildLabels(parts, i + 1, result)

\* the dict {} : a mapping with no axis
NoLabels == [a \in {} |-> "+"]

\* parse_answer keeping the enclosing parentheses
parse_answer_keep_parens(response) ==
    LET m == AnswerSearch(response)
        content == Strip(IF m[1] THEN m[2] ELSE Strip(response))
    IN  BuildLabels(SplitComma(content, <<>>, <<>>), 1, NoLabels)

\* verifier.parse_answer
parse_answer(response) ==
    LET m == AnswerSearch(response)
        content == Strip(IF m[1] THEN m[2] ELSE Strip(response))
        inner == IF content # <<>> /\ Head(content) = "("
                    /\ content[Len(content)] = ")" /\ Len(content) >= 2
                 THEN SubSeq(content, 2, Len(content) - 1)
                 ELSE content
    IN  BuildLabels(SplitComma(inner, <<>>, <<>>), 1, NoLabels)

RECURSIVE CheckLoopSkipMissing(_, _, _)
\* the loop of check_answer passing over an axis the ground truth lacks
CheckLoopSkipMissing(parsed, gt, i) ==
    IF i > Len(Axes) THEN TRUE
    ELSE LET axis == Axes[i]
         IN  IF axis \in DOMAIN parsed /\ axis \in DOMAIN gt
                /\ gt[axis] # parsed[axis]
             THEN FALSE
             ELSE CheckLoopSkipMissing(parsed, gt, i + 1)

RECURSIVE CheckLoop(_, _, _)
\* for axis, sign in parsed.items(): if gt.get(axis) != sign: return False;
\* return True.  gt.get(axis) is None, which differs from every sign, when
\* gt lacks the axis.  The items are visited here in the order X, Y, Z:
\* the loop has no effect but its return value, which is False exactly
\* when some item fails the test, in whatever order the dict yields them.
CheckLoop(parsed, gt, i) ==
    IF i > Len(Axes) THEN TRUE
    ELSE LET axis == Axes[i]
         IN  IF axis \in DOMAIN parsed
                /\ (axis \notin DOMAIN gt \/ gt[axis] # parsed[axis])
             THEN FALSE
             ELSE CheckLoop(parsed, gt, i + 1)

\* verifier.check_answer
check_answer(groundtruth, response) ==
    CheckLoop(parse_answer(response), parse_answer(groundtruth), 1)

\* JSON values
JNull == [t |-> "null"]
JStr(s) == [t |-> "str", s |-> s]
JNum(n) == [t |-> "num", n |-> n]
JArr(a) == [t |-> "arr", a |-> a]
JObj(o) == [t |-> "obj", o |-> o]

\* the JSON documents a planner answer carries, each a single token of text
DocCapture == "{\"action\": \"CAPTURE\", \"view\": {\"az\": 90, \"el\": 30}, \"axis\": [\"X\", \"Y\"]}"
DocStop == "{\"action\": \"STOP\", \"view\": null, \"axis\": null}"
DocNoAction == "{\"view\": {\"az\": 0, \"el\": 30}, \"axis\": [\"X\"]}"
DocNullView == "{\"action\": \"CAPTURE\", \"view\": null, \"axis\": [\"X\"]}"
DocNoAz == "{\"action\": \"CAPTURE\", \"view\": {\"el\": 30}, \"axis\": [\"X\"]}"
DocNoEl == "{\"action\": \"CAPTURE\", \"view\": {\"az\": 90}, \"axis\": [\"X\"]}"
DocNoAxis == "{\"action\": \"CAPTURE\", \"view\": {\"az\": 90, \"el\": 30}}"

\* json.loads(answer_content): <<ok, value>>; ok is FALSE for JSONDecodeError
json_loads(content) ==
    IF Len(content) # 1 THEN <<FALSE, JNull>>
    ELSE CASE content[1] = DocCapture ->
                <<TRUE, JObj([action |-> JStr("CAPTURE"),
                              view |-> JObj([az |-> JNum(90), el |-> JNum(30)]),
                              axis |-> JArr(<<"X", "Y">>)])>>
           [] content[1] = DocStop ->
                <<TRUE, JObj([action |-> JStr("STOP"), view |-> JNull,
                              axis |-> JNull])>>
           [] content[1] = DocNoAction ->
                <<TRUE, JObj([view |-> JObj([az |-> JNum(0), el |-> JNum(30)]),
                              axis |-> JArr(<<"X">>)])>>
           [] content[1] = DocNullView ->
                <<TRUE, JObj([action |-> JStr("CAPTURE"), view |-> JNull,
                              axis |-> JArr(<<"X">>)])>>
           [] content[1] = DocNoAz ->
                <<TRUE, JObj([action |-> JStr("CAPTURE"),
                              view |-> JObj([el |-> JNum(30)]),
                              axis |-> JArr(<<"X">>)])>>
           [] content[1] = DocNoEl ->
                <<TRUE, JObj([action |-> JStr("CAPTURE"),
                              view |-> JObj([az |-> JNum(90)]),
                              axis |-> JArr(<<"X">>)])>>
           [] content[1] = DocNoAxis ->
                <<TRUE, JObj([action |-> JStr("CAPTURE"),
                              view |-> JObj([az |-> JNum(90), el |-> JNum(30)])])>>
           [] content[1] = "0" -> <<TRUE, JNum(0)>>
           [] OTHER -> <<FALSE, JNull>>

\* parse_answer_json falling back to the whole text when the tags are
\* missing, as parse_answer does
parse_answer_json_whole_text(llm_response) ==
    LET i == FirstIndex(llm_response, "<answer>", 1)
        j == IF i = 0 THEN 0 ELSE FirstIndex(llm_response, "</answer>", i + 1)
        answer_content == IF i = 0 \/ j = 0 THEN Strip(llm_response)
                          ELSE Strip(SubSeq(llm_response, i + 1, j - 1))
        loaded == json_loads(answer_content)
    IN  [ok |-> loaded[1], value |-> loaded[2]]

\* parse_answer_json answering a text it cannot decode with the STOP plan
parse_answer_json_default_plan(llm_response) ==
    LET i == FirstIndex(llm_response, "<answer>", 1)
        j == IF i = 0 THEN 0 ELSE FirstIndex(llm_response, "</answer>", i + 1)
        answer_content == Strip(SubSeq(llm_response, i + 1, j - 1))
        loaded == json_loads(answer_content)
    IN  IF i = 0 \/ j = 0 \/ ~loaded[1]
        THEN [ok |-> TRUE, value |-> json_loads(<<DocStop>>)[2]]
        ELSE [ok |-> loaded[1], value |-> loaded[2]]

\* verifier.parse_answer_json: [ok, value]; ok is FALSE when it raises
\* ValueError (no tags, or JSONDecodeError caught and re-raised).
\* re.search(r'<answer>(.*?)</answer>', llm_response, re.DOTALL)
parse_answer_json(llm_response) ==
    LET i == FirstIndex(llm_response, "<answer>", 1)
        j == IF i = 0 THEN 0 ELSE FirstIndex(llm_response, "</answer>", i + 1)
        answer_content == Strip(SubSeq(llm_response, i + 1, j - 1))
        loaded == json_loads(answer_content)
    IN  IF i = 0 \/ j = 0 THEN [ok |-> FALSE, value |-> JNull]
        ELSE [ok |-> loaded[1], value |-> loaded[2]]

\* d[key] on a decoded JSON value: <<error, value>>, error "" when it
\* succeeds, "TypeError" when d is not subscriptable by a string,
\* "KeyError" when the key is missing
Subscript(d, key) ==
    IF d.t # "obj" THEN <<"TypeError", JNull>>
    ELSE IF key \notin DOMAIN d.o THEN <<"KeyError", JNull>>
         ELSE <<"", d.o[key]>>

\* the f-string with the Y and Z fields exchanged
FormatAnswerYZ(decision) ==
    <<"<answer>", "(", decision["X"], "X", ",", " ", decision["Z"], "Z",
      ",", " ", decision["Y"], "Y", ")", "</answer>">>

\* the f-string of Agent.run's return value
FormatAnswer(decision) ==
    <<"<answer>", "(", decision["X"], "X", ",", " ", decision["Y"], "Y",
      ",", " ", decision["Z"], "Z", ")", "</answer>">>

\* --------------------------------------------------------- collaborators
\* what the perception service may answer (call_vlm)
PerceptionResponses ==
    { <<"<answer>", "(", "+", "X", ",", " ", "-", "Y", ",", " ", "0", "Z", ")",
        "</answer>">>,
      <<"w", "\n", "<answer>", "(", "-", "X", ",", " ", "+", "Y", ")",
        "</answer>">>,
      <<"<answer>", "(", "w", ")", "</answer>">>,
      <<"<answer>", "(", "+", "X", ",", "\n", "0", "Z", ")", "</answer>">> }

\* what the planner service may answer (call_llm)
PlannerResponses ==
    { <<"w", "\n", "<answer>", "\n", DocCapture, "\n", "</answer>">>,
      <<"<answer>", DocStop, "</answer>">>,
      <<DocCapture>>,
      <<"<answer>", "w", "</answer>">>,
      <<"<answer>", DocNoAction, "</answer>">>,
      <<"<answer>", DocNullView, "</answer>">>,
      <<"<answer>", DocNoAz, "</answer>">>,
      <<"<answer>", DocNoEl, "</answer>">>,
      <<"<answer>", DocNoAxis, "</answer>">> }

\* the values random.uniform(-r, r) is taken to return: both ends and 0
UniformDraws(r) == {0 - r, 0, r}

\* generate_jitter_offsets looping once more than m times
generate_jitter_offsets_one_more(m, raz, rel) ==
    [1..(m + 1) -> UniformDraws(raz) \X UniformDraws(rel)]

\* utils.generate_jitter_offsets: the lists of m pairs it can return
generate_jitter_offsets(m, raz, rel) ==
    [1..m -> UniformDraws(raz) \X UniformDraws(rel)]

\* capture naming the image by the elevation first
capture_swapped(azimuth, elevation) == <<elevation, azimuth>>

\* ViewNavigationEnv.capture: the image path names int(azimuth) and
\* int(elevation); the angles of the model are whole degrees
capture(azimuth, elevation) == <<azimuth, elevation>>

\* Agent.__init__ defaults tau = 0.9, kappa_min = 10, and a pair of
\* thresholds low enough for the belief stop rule to fire in a short run
Thresholds == {<<<<9, 10>>, <<10, 1>>>>, <<<<67, 200>>, <<151, 50>>>>}

\* the arguments the BeliefState client passes to should_stop
StopArgs == {<<9, 10>>, <<3, 8>>} \X {<<10, 1>>, <<7, 2>>}

ZeroTally == [s \in SignSet |-> 0]
ZeroCounts == [A \in AxisSet |-> ZeroTally]
Unanimous(s, n) == [q \in SignSet |-> IF q = s THEN n ELSE 0]

\* the tallies the BeliefState client passes to update for axis A: no vote,
\* MaxTally votes for one sign, or a majority of MaxTally - 1 against 1
ClientTallies(A) ==
    LET s == IF A = "X" THEN "+" ELSE IF A = "Y" THEN "0" ELSE "-"
        o == IF A = "X" THEN "-" ELSE "+"
    IN  { ZeroTally, Unanimous(s, MaxTally),
          [q \in SignSet |-> IF q = s THEN MaxTally - 1
                             ELSE IF q = o THEN 1 ELSE 0] }

ClientCounts ==
    {[A \in AxisSet |-> IF A = "X" THEN x ELSE IF A = "Y" THEN y ELSE z] :
        x \in ClientTallies("X"), y \in ClientTallies("Y"),
        z \in ClientTallies("Z")}

\* ------------------------------------------------------------------ state
VARIABLES
    pc,                 \* where Agent.run stands (or the client's last call)
    alpha,              \* self.belief.alpha
    method,             \* self.belief.method
    history,            \* self.history
    steps,              \* self.steps
    tau,                \* self.tau
    kappa_min,          \* self.kappa_min
    max_steps,          \* run's argument
    jitter_size,        \* run's argument
    user_prompt,        \* what propose_view gave the planner
    llm_response,       \* run's local
    az, el, focus_axis, \* run's locals (decoded JSON values)
    views,              \* what the for loop over offsets + [(0, 0)] has left
    img_path,           \* run's local, until the perception call has used it
    ans,                \* run's local: the perception answer
    axis_counts,        \* run's local; update's argument
    view_ans,           \* run's local
    confidence_scores,  \* update's return value
    stop,               \* should_stop's flag
    result,             \* run's return value
    err,                \* the exception that left run
    ncapture,           \* env.capture calls since the step began
    nperceive,          \* perception calls since the step began
    njitter,            \* pairs drawn by generate_jitter_offsets since then
    nzero,              \* those of them that are (0, 0)
    nupdate,            \* BeliefState.update calls
    step_start,         \* alpha, history, steps when the step began
    groundtruth,        \* check_answer's argument
    response            \* parse_answer's and check_answer's argument

belief_vars == <<alpha, method>>
agent_fields == <<history, steps, tau, kappa_min>>
run_args == <<max_steps, jitter_size>>
plan_locals == <<user_prompt, llm_response, az, el, focus_axis>>
vote_locals == <<views, img_path, ans, axis_counts, view_ans>>
outcome == <<confidence_scores, stop, result, err>>
counters == <<ncapture, nperceive, njitter, nzero, nupdate, step_start>>
parser_args == <<groundtruth, response>>
vars == <<pc, belief_vars, agent_fields, run_args, plan_locals, vote_locals,
          outcome, counters, parser_args>>

Snapshot == [alpha |-> alpha, history |-> history, steps |-> steps]
NoResult == [ans |-> <<>>, top_ps |-> <<>>]
NoPrompt == [turn |-> "none"]
NoScores == [A \in AxisSet |-> 0]

\* the locals of run before they are assigned, and after run is left
LocalsUnset ==
    /\ user_prompt = NoPrompt
    /\ llm_response = <<>>
    /\ az = JNull /\ el = JNull /\ focus_axis = JNull
    /\ views = <<>>
    /\ img_path = <<>>
    /\ ans = <<>>
    /\ axis_counts = ZeroCounts
    /\ view_ans = NoLabels
    /\ confidence_scores = NoScores
    /\ stop = FALSE

\* run is left, by return or by an exception: its locals are gone
LeaveRun ==
    /\ user_prompt' = NoPrompt
    /\ llm_response' = <<>>
    /\ az' = JNull /\ el' = JNull /\ focus_axis' = JNull
    /\ views' = <<>>
    /\ img_path' = <<>>
    /\ ans' = <<>>
    /\ axis_counts' = ZeroCounts
    /\ view_ans' = NoLabels
    /\ confidence_scores' = NoScores
    /\ stop' = FALSE

\* an exception leaves run
Raise(e) == pc' = "raised" /\ err' = e /\ LeaveRun /\ UNCHANGED result

\* Agent.__init__ and the entry of run
AgentInit ==
    /\ alpha = InitAlpha
    /\ method = "wilson"
    /\ history = <<>>
    /\ steps = 1
    /\ LocalsUnset
    /\ result = NoResult
    /\ err = ""
    /\ ncapture = 0 /\ nperceive = 0 /\ njitter = 0 /\ nzero = 0 /\ nupdate = 0
    /\ step_start = Snapshot
    /\ groundtruth = <<>> /\ response = <<>>

Init ==
    /\ pc = "loop"
    /\ max_steps \in 0..MaxSteps
    /\ jitter_size \in 0..MaxJitter
    /\ \E th \in Thresholds : tau = th[1] /\ kappa_min = th[2]
    /\ AgentInit

\* ------------------------------------------------------------- Agent.run
\* the loop test counting the steps from 0 and including the bound
LoopConditionInclusive == steps - 1 <= max_steps

\* the loop test giving up one step before the budget is used
LoopConditionOneEarly == steps + 1 < max_steps

\* self.steps < max_steps
LoopCondition == steps < max_steps

\* while self.steps < max_steps
LoopTest ==
    /\ pc = "loop"
    /\ IF LoopCondition
       THEN /\ pc' = "propose"
            /\ ncapture' = 0 /\ nperceive' = 0 /\ njitter' = 0 /\ nzero' = 0
            /\ step_start' = Snapshot
            /\ UNCHANGED nupdate
       ELSE pc' = "terminate" /\ UNCHANGED counters
    /\ UNCHANGED <<belief_vars, agent_fields, run_args, parser_args,
                   plan_locals, vote_locals, outcome>>

\* propose_view giving the opening prompt at every step
PlannerPromptOpening == [turn |-> "first", tau |-> tau]

\* Agent.propose_view builds the prompt
PlannerPrompt ==
    IF history = <<>> THEN [turn |-> "first", tau |-> tau]
    ELSE [turn |-> "intermediate", tau |-> tau,
          belief_state |-> get_posterior(alpha), history |-> history]

\* llm_response = self.propose_view(central, target): the planner answers
ProposeView ==
    /\ pc = "propose"
    /\ user_prompt' = PlannerPrompt
    /\ \E r \in PlannerResponses : llm_response' = r
    /\ pc' = "decode"
    /\ UNCHANGED <<belief_vars, agent_fields, run_args, parser_args, az, el,
                   focus_axis, vote_locals, outcome, counters>>

\* call_llm raises
PlannerFails ==
    /\ pc = "propose"
    /\ Raise("CollaboratorFailure")
    /\ UNCHANGED <<belief_vars, agent_fields, run_args, parser_args, counters>>

\* the STOP test comparing with the lower-case word
IsStopLower(action) == action.o["action"] = JStr("stop")

\* if action['action'] == 'STOP'
IsStop(action) == action.o["action"] = JStr("STOP")

\* the canonical view put first: [(0, 0)] + offsets
ViewListCanonicalFirst(offsets) == <<<<0, 0>>>> \o offsets

\* the canonical view left out whenever an offset was drawn
ViewListWithoutCanonical(offsets) ==
    IF offsets = <<>> THEN <<<<0, 0>>>> ELSE offsets

\* offsets + [(0, 0)]
ViewList(offsets) == offsets \o <<<<0, 0>>>>

\* the number of drawn offsets that are (0, 0)
ZeroDraws(offsets) == Cardinality({i \in 1..Len(offsets) : offsets[i] = <<0, 0>>})

\* run reporting every fault of the decoded plan as the format error
PlanErrorAsFormatError(parsed) ==
    LET action == parsed.value
        act == Subscript(action, "action")
        view == Subscript(action, "view")
        vaz == Subscript(view[2], "az")
        vel == Subscript(view[2], "el")
        axis == Subscript(action, "axis")
    IN  IF ~parsed.ok THEN "ValueError"
        ELSE IF act[1] # "" THEN "ValueError"
        ELSE IF IsStop(action) THEN ""
        ELSE IF view[1] # "" \/ vaz[1] # "" \/ vel[1] # "" \/ axis[1] # ""
             THEN "ValueError"
             ELSE ""

\* the exception that lines 77-85 raise on the decoded plan, "" when none
PlanError(parsed) ==
    LET action == parsed.value
        act == Subscript(action, "action")
        view == Subscript(action, "view")
        vaz == Subscript(view[2], "az")
        vel == Subscript(view[2], "el")
        axis == Subscript(action, "axis")
    IN  IF ~parsed.ok THEN "ValueError"
        ELSE IF act[1] # "" THEN act[1]
        ELSE IF IsStop(action) THEN ""
        ELSE IF view[1] # "" THEN view[1]
        ELSE IF vaz[1] # "" THEN vaz[1]
        ELSE IF vel[1] # "" THEN vel[1]
        ELSE axis[1]

\* action = parse_answer_json(llm_response); if action['action'] == 'STOP':
\* break; az, el, focus_axis; offsets = generate_jitter_offsets(...);
\* axis_counts = {...}; the for loop starts on offsets + [(0, 0)]
Decode ==
    /\ pc = "decode"
    /\ \E parsed \in {parse_answer_json(llm_response)} :
        \E action \in {parsed.value}, e \in {PlanError(parsed)} :
           IF e # ""
           THEN Raise(e) /\ UNCHANGED <<njitter, nzero>>
           ELSE IF IsStop(action)
           THEN /\ pc' = "terminate"
                /\ UNCHANGED <<err, az, el, focus_axis, vote_locals, njitter,
                               nzero, user_prompt, llm_response, confidence_scores,
                               stop, result>>
           ELSE /\ az' = action.o["view"].o["az"]
                /\ el' = action.o["view"].o["el"]
                /\ focus_axis' = action.o["axis"]
                /\ \E offsets \in generate_jitter_offsets(jitter_size, r_az, r_el) :
                      /\ views' = ViewList(offsets)
                      /\ njitter' = njitter + Len(offsets)
                      /\ nzero' = ZeroDraws(offsets)
                /\ axis_counts' = ZeroCounts
                /\ pc' = "capture"
                /\ UNCHANGED <<err, img_path, ans, view_ans, user_prompt,
                               llm_response, confidence_scores, stop, result>>
    /\ UNCHANGED <<belief_vars, agent_fields, run_args, parser_args, ncapture,
                   nperceive, nupdate, step_start>>

\* img_path = env.capture(az + daz, el + del_)
Capture ==
    /\ pc = "capture"
    /\ IF az.t # "num" \/ el.t # "num"
       THEN Raise("TypeError") /\ UNCHANGED ncapture
       ELSE /\ img_path' = capture(az.n + Head(views)[1], el.n + Head(views)[2])
            /\ ncapture' = ncapture + 1
            /\ pc' = "perceive"
            /\ UNCHANGED <<plan_locals, views, ans, axis_counts, view_ans,
                           outcome>>
    /\ UNCHANGED <<belief_vars, agent_fields, run_args, parser_args, nperceive,
                   njitter, nzero, nupdate, step_start>>

\* env.capture raises and run makes the call again
CaptureFailsRetried ==
    /\ pc = "capture"
    /\ az.t = "num" /\ el.t = "num"
    /\ ncapture' = ncapture + 1
    /\ UNCHANGED <<pc, belief_vars, agent_fields, run_args, parser_args,
                   plan_locals, vote_locals, outcome, nperceive, njitter,
                   nzero, nupdate, step_start>>

\* env.capture raises
CaptureFails ==
    /\ pc = "capture"
    /\ az.t = "num" /\ el.t = "num"
    /\ ncapture' = ncapture + 1
    /\ Raise("CollaboratorFailure")
    /\ UNCHANGED <<belief_vars, agent_fields, run_args, parser_args, nperceive,
                   njitter, nzero, nupdate, step_start>>

\* for axis, sign in labels.items(): axis_counts[axis][sign] += 1
Tally(counts, labels) ==
    [A \in AxisSet |-> [s \in SignSet |->
        counts[A][s] + (IF A \in DOMAIN labels /\ labels[A] = s THEN 1 ELSE 0)]]

\* ans = self.perceive(img_path, ...); labels = parse_answer(ans); the
\* tally; if daz == 0 and del_ == 0: view_ans = labels; next view
Perceive ==
    /\ pc = "perceive"
    /\ \E a \in PerceptionResponses :
          \E labels \in {parse_answer(a)} :
              /\ ans' = a
              /\ axis_counts' = Tally(axis_counts, labels)
              /\ view_ans' = IF Head(views)[1] = 0 /\ Head(views)[2] = 0
                             THEN labels ELSE view_ans
    /\ nperceive' = nperceive + 1
    /\ views' = Tail(views)
    /\ img_path' = <<>>
    /\ pc' = IF Tail(views) = <<>> THEN "update" ELSE "capture"
    /\ UNCHANGED <<belief_vars, agent_fields, run_args, parser_args,
                   plan_locals, outcome, ncapture, njitter, nzero, nupdate,
                   step_start>>

\* call_vlm raises
PerceiveFails ==
    /\ pc = "perceive"
    /\ nperceive' = nperceive + 1
    /\ Raise("CollaboratorFailure")
    /\ UNCHANGED <<belief_vars, agent_fields, run_args, parser_args, ncapture,
                   njitter, nzero, nupdate, step_start>>

\* the history entry of line 108
HistoryEntry(scores) ==
    [step |-> steps, view |-> [az |-> az, el |-> el], answer |-> view_ans,
     confidence |-> scores]

\* confidence_scores = self.belief.update(axis_counts); self.history.append;
\* self.steps += 1; stop, decision = self.belief.should_stop(...); break
Update ==
    /\ pc = "update"
    /\ \E u \in {update(alpha, method, axis_counts)} :
        \E st \in {should_stop(u.alpha, tau, kappa_min)} :
           /\ alpha' = u.alpha
           /\ confidence_scores' = u.confidence_scores
           /\ history' = Append(history, HistoryEntry(u.confidence_scores))
           /\ stop' = st[1]
           /\ pc' = IF st[1] THEN "terminate" ELSE "loop"
    /\ steps' = steps + 1
    /\ nupdate' = nupdate + 1
    /\ UNCHANGED <<method, tau, kappa_min, run_args, parser_args, plan_locals,
                   vote_locals, result, err, ncapture, nperceive, njitter,
                   nzero, step_start>>

\* decision, top_ps = self.belief.get_decision(); return ans, top_ps
Terminate ==
    /\ pc = "terminate"
    /\ \E d \in {get_decision(alpha)} :
          result' = [ans |-> FormatAnswer(d[1]), top_ps |-> d[2]]
    /\ pc' = "done"
    /\ LeaveRun
    /\ UNCHANGED <<belief_vars, agent_fields, run_args, parser_args, err,
                   counters>>

Next ==
    \/ LoopTest
    \/ PlannerFails
    \/ ProposeView
    \/ Decode
    \/ CaptureFails
    \/ Capture
    \/ PerceiveFails
    \/ Perceive
    \/ Update
    \/ Terminate

Spec == Init /\ [][Next]_vars

\* run has returned or raised
Ended == {"done", "raised"}

\* the places of control in run
PcValues == {"loop", "propose", "decode", "capture", "perceive", "update",
             "terminate", "done", "raised"}

\* control moves on: every step of Next is one, as each moves pc and none
\* starts after run has ended
Advance == pc \notin Ended /\ pc' \in PcValues \ {pc}

\* while run has neither returned nor raised some step of it can be taken
NextEnabledWhileRunning == pc \notin Ended => ENABLED Next

\* the interpreter keeps executing run, and every call it makes returns or
\* raises: control does not rest before run has ended
FairSpec == Spec /\ WF_pc(Advance)

\* ------------------------------------------- BeliefState used on its own
\* a client constructs BeliefState(method=...) and calls its methods in any
\* order; pc names the call that returned last
BeliefInit ==
    /\ pc = "constructed"
    /\ max_steps = 0
    /\ jitter_size = 0
    /\ tau = <<9, 10>> /\ kappa_min = <<10, 1>>
    /\ alpha = InitAlpha
    /\ method \in {"wilson", "entropy"}
    /\ history = <<>>
    /\ steps = 1
    /\ LocalsUnset
    /\ result = NoResult
    /\ err = ""
    /\ ncapture = 0 /\ nperceive = 0 /\ njitter = 0 /\ nzero = 0 /\ nupdate = 0
    /\ step_start = Snapshot
    /\ groundtruth = <<>> /\ response = <<>>

ClientCalls == {"constructed", "update_returned", "get_posterior_returned",
                "get_decision_returned", "should_stop_returned"}

\* The client's record of its last call: axis_counts and confidence_scores
\* for update, tau, kappa_min and stop for should_stop, result for the two
\* other queries; a call clears the record of the call before it.

\* belief.update(axis_counts)
CallUpdate ==
    /\ pc \in ClientCalls
    /\ nupdate < MaxUpdates
    /\ \E c \in ClientCounts :
          LET u == update(alpha, method, c)
          IN  /\ axis_counts' = c
              /\ alpha' = u.alpha
              /\ confidence_scores' = u.confidence_scores
    /\ nupdate' = nupdate + 1
    /\ pc' = "update_returned"
    /\ tau' = <<9, 10>> /\ kappa_min' = <<10, 1>> /\ stop' = FALSE
    /\ result' = NoResult
    /\ UNCHANGED <<method, history, steps, run_args, parser_args, plan_locals,
                   views, img_path, ans, view_ans, err, ncapture, nperceive,
                   njitter, nzero, step_start>>

\* belief.get_posterior()
CallGetPosterior ==
    /\ pc \in ClientCalls
    /\ pc' = "get_posterior_returned"
    /\ result' = [ans |-> <<>>, top_ps |-> get_posterior(alpha)]
    /\ axis_counts' = ZeroCounts /\ confidence_scores' = NoScores
    /\ tau' = <<9, 10>> /\ kappa_min' = <<10, 1>> /\ stop' = FALSE
    /\ UNCHANGED <<belief_vars, history, steps, run_args, parser_args,
                   plan_locals, views, img_path, ans, view_ans, err, counters>>

\* belief.get_decision()
CallGetDecision ==
    /\ pc \in ClientCalls
    /\ pc' = "get_decision_returned"
    /\ LET d == get_decision(alpha)
       IN  result' = [ans |-> d[1], top_ps |-> d[2]]
    /\ axis_counts' = ZeroCounts /\ confidence_scores' = NoScores
    /\ tau' = <<9, 10>> /\ kappa_min' = <<10, 1>> /\ stop' = FALSE
    /\ UNCHANGED <<belief_vars, history, steps, run_args, parser_args,
                   plan_locals, views, img_path, ans, view_ans, err, counters>>

\* belief.should_stop(tau, kappa_min)
CallShouldStop ==
    /\ pc \in ClientCalls
    /\ pc' = "should_stop_returned"
    /\ \E a \in StopArgs :
          LET st == should_stop(alpha, a[1], a[2])
          IN  /\ tau' = a[1] /\ kappa_min' = a[2]
              /\ stop' = st[1]
              /\ result' = [ans |-> st[2], top_ps |-> <<>>]
    /\ axis_counts' = ZeroCounts /\ confidence_scores' = NoScores
    /\ UNCHANGED <<belief_vars, history, steps, run_args, parser_args,
                   plan_locals, views, img_path, ans, view_ans, err, counters>>

BeliefNext ==
    \/ CallUpdate
    \/ CallGetPosterior
    \/ CallGetDecision
    \/ CallShouldStop

BeliefSpec == BeliefInit /\ [][BeliefNext]_vars

\* ------------------------------------- BeliefState fed one tally repeatedly
\* the tallies with a given total
TalliesOfTotal(n) == {Counts(p, z, n - p - z) : p \in 0..n, z \in 0..n}
                        \cap [SignSet -> 0..n]

\* the tally with each sign's count moved to the next sign
Rotate(c) == Counts(c["-"], c["+"], c["0"])

\* the scenario's tally with its three axis tallies given to the axes in
\* each of the six orders
ScenarioTallies ==
    {[A \in AxisSet |-> ScenarioTally[f[A]]] :
        f \in {g \in [AxisSet -> AxisSet] :
                  \A B \in AxisSet : \E A \in AxisSet : g[A] = B}}

\* the tallies the repeating client passes: the scenario's, and every
\* tally of at most MaxTally votes on X with its rotations on Y and Z
RepeatTallies ==
    ScenarioTallies
    \cup {[X |-> c, Y |-> Rotate(c), Z |-> Rotate(Rotate(c))] :
             c \in UNION {TalliesOfTotal(n) : n \in 0..MaxTally}}

RepeatCalls == {"constructed", "update_returned", "should_stop_returned"}

\* a client constructs BeliefState(method=...), chooses a tally, and calls
\* update with that tally and should_stop(0.9, 10) in any order
RepeatInit ==
    /\ pc = "constructed"
    /\ max_steps = 0
    /\ jitter_size = 0
    /\ tau = <<9, 10>> /\ kappa_min = <<10, 1>>
    /\ alpha = InitAlpha
    /\ method \in {"wilson", "entropy"}
    /\ history = <<>>
    /\ steps = 1
    /\ user_prompt = NoPrompt
    /\ llm_response = <<>>
    /\ az = JNull /\ el = JNull /\ focus_axis = JNull
    /\ views = <<>>
    /\ img_path = <<>>
    /\ ans = <<>>
    /\ axis_counts \in RepeatTallies
    /\ view_ans = NoLabels
    /\ confidence_scores = NoScores
    /\ stop = FALSE
    /\ result = NoResult
    /\ err = ""
    /\ ncapture = 0 /\ nperceive = 0 /\ njitter = 0 /\ nzero = 0 /\ nupdate = 0
    /\ step_start = Snapshot
    /\ groundtruth = <<>> /\ response = <<>>

\* belief.update(axis_counts), the tally being the one chosen
RepeatUpdate ==
    /\ pc \in RepeatCalls
    /\ nupdate < MaxRepeats
    /\ \E u \in {update(alpha, method, axis_counts)} :
          /\ alpha' = u.alpha
          /\ confidence_scores' = u.confidence_scores
    /\ nupdate' = nupdate + 1
    /\ pc' = "update_returned"
    /\ stop' = FALSE
    /\ result' = NoResult
    /\ UNCHANGED <<method, agent_fields, run_args, parser_args, plan_locals,
                   vote_locals, err, ncapture, nperceive, njitter, nzero,
                   step_start>>

\* belief.should_stop(0.9, 10)
RepeatShouldStop ==
    /\ pc \in RepeatCalls
    /\ pc' = "should_stop_returned"
    /\ \E st \in {should_stop(alpha, tau, kappa_min)} :
          /\ stop' = st[1]
          /\ result' = [ans |-> st[2], top_ps |-> <<>>]
    /\ confidence_scores' = NoScores
    /\ UNCHANGED <<belief_vars, agent_fields, run_args, parser_args,
                   plan_locals, vote_locals, err, counters>>

RepeatNext ==
    \/ RepeatUpdate
    \/ RepeatShouldStop

RepeatSpec == RepeatInit /\ [][RepeatNext]_vars

\* ------------------------------------------- the answer parser on its own
\* the tokens between two commas of a perception answer: well-formed ones,
\* ones with blanks or a line break around or inside, and one that is no
\* sign-axis pair
TupleItems ==
    { <<"+", "X">>, <<"-", "Y">>, <<"0", "Z">>, <<"-", "X">>,
      <<" ", "+", "Y">>, <<"\n", "0", "Z">>, <<"+", " ", "X">>, <<"w">> }

RECURSIVE JoinComma(_)
\* ",".join(parts)
JoinComma(parts) ==
    IF parts = <<>> THEN <<>>
    ELSE IF Len(parts) = 1 THEN parts[1]
         ELSE parts[1] \o <<",">> \o JoinComma(Tail(parts))

\* the comma-separated lists of at most MaxParts items
TupleBodies ==
    {JoinComma(ps) : ps \in UNION {[1..k -> TupleItems] : k \in 0..MaxParts}}

\* the 27 decisions get_decision can return
Decisions == [AxisSet -> SignSet]

\* the untagged form of run's answer: (sX, sY, sZ)
UntaggedAnswer(decision) ==
    SubSeq(FormatAnswer(decision), 2, Len(FormatAnswer(decision)) - 1)

\* a body as a perception service may send it: bare, parenthesised, tagged,
\* after a reasoning text, padded with line breaks, followed by a second
\* region, or with the closing tag missing
TupleTexts(b) ==
    { b,
      <<"(">> \o b \o <<")">>,
      <<"<answer>">> \o b \o <<"</answer>">>,
      <<"<answer>", "(">> \o b \o <<")", "</answer>">>,
      <<"w", ",", "+", "Z", "\n", "<answer>", "(">> \o b
          \o <<")", "</answer>">>,
      <<"<answer>", "\n", "(">> \o b \o <<")", "\n", "</answer>", "w">>,
      <<"<answer>", "(">> \o b
          \o <<")", "</answer>", "<answer>", "-", "Z", "</answer>">>,
      <<"<answer>", "(">> \o b \o <<")">> }

\* the contents a planner answer may carry
JsonBodies ==
    { <<DocCapture>>, <<DocStop>>, <<"0">>, <<"w">>, <<>>,
      <<DocStop, DocStop>> }

\* a planner answer: bare, tagged, after a reasoning text and padded with
\* line breaks, with the tags in the wrong order, with a tag missing or
\* doubled
JsonTexts(b) ==
    { b,
      <<"<answer>">> \o b \o <<"</answer>">>,
      <<"w", "\n", "<answer>", "\n">> \o b \o <<"\n", "</answer>">>,
      <<"</answer>">> \o b \o <<"<answer>">>,
      <<"<answer>">> \o b,
      <<"<answer>", "<answer>">> \o b \o <<"</answer>">>,
      <<"<answer>">> \o b \o <<"</answer>", "w", "</answer>">> }

\* the texts the parser's client passes
ParserTexts ==
    UNION {TupleTexts(b) : b \in TupleBodies}
    \cup UNION {JsonTexts(b) : b \in JsonBodies}
    \cup {FormatAnswer(d) : d \in Decisions}
    \cup {UntaggedAnswer(d) : d \in Decisions}

\* the ground truths the client passes to check_answer
GroundTruths ==
    { <<"(", "+", "X", ",", " ", "-", "Y", ",", " ", "0", "Z", ")">>,
      <<"<answer>", "(", "-", "X", ",", "-", "Y", ")", "</answer>">>,
      <<"(", "+", "X", ")">>,
      <<"w">> }

ParserCalls == {"imported", "parse_answer_returned",
                "parse_answer_json_returned", "check_answer_returned"}

\* a client imports verifier and calls one of its functions; the functions
\* keep no state, so a call behaves the same wherever it stands in a longer
\* sequence of calls.  pc names the call that returned, response and
\* groundtruth hold its arguments, result what it returned, err the
\* exception it raised
ParserInit ==
    /\ pc = "imported"
    /\ max_steps = 0
    /\ jitter_size = 0
    /\ tau = <<9, 10>> /\ kappa_min = <<10, 1>>
    /\ alpha = InitAlpha
    /\ method = "wilson"
    /\ history = <<>>
    /\ steps = 1
    /\ LocalsUnset
    /\ result = NoResult
    /\ err = ""
    /\ ncapture = 0 /\ nperceive = 0 /\ njitter = 0 /\ nzero = 0 /\ nupdate = 0
    /\ step_start = Snapshot
    /\ groundtruth = <<>> /\ response = <<>>

\* parse_answer(response)
CallParseAnswer ==
    /\ pc = "imported"
    /\ pc' = "parse_answer_returned"
    /\ \E t \in ParserTexts :
          /\ response' = t
          /\ result' = parse_answer(t)
    /\ groundtruth' = <<>>
    /\ err' = ""
    /\ UNCHANGED <<belief_vars, agent_fields, run_args, plan_locals,
                   vote_locals, confidence_scores, stop, counters>>

\* parse_answer_json(response)
CallParseAnswerJson ==
    /\ pc = "imported"
    /\ pc' = "parse_answer_json_returned"
    /\ \E t \in ParserTexts :
          \E parsed \in {parse_answer_json(t)} :
             /\ response' = t
             /\ result' = IF parsed.ok THEN parsed.value ELSE NoResult
             /\ err' = IF parsed.ok THEN "" ELSE "ValueError"
    /\ groundtruth' = <<>>
    /\ UNCHANGED <<belief_vars, agent_fields, run_args, plan_locals,
                   vote_locals, confidence_scores, stop, counters>>

\* check_answer(groundtruth, response)
CallCheckAnswer ==
    /\ pc = "imported"
    /\ pc' = "check_answer_returned"
    /\ \E g \in GroundTruths, t \in ParserTexts :
          /\ groundtruth' = g
          /\ response' = t
          /\ result' = check_answer(g, t)
    /\ err' = ""
    /\ UNCHANGED <<belief_vars, agent_fields, run_args, plan_locals,
                   vote_locals, confidence_scores, stop, counters>>

ParserNext ==
    \/ CallParseAnswer
    \/ CallParseAnswerJson
    \/ CallCheckAnswer

ParserSpec == ParserInit /\ [][ParserNext]_vars

\* ================================================================ claims
\* the value json.loads gives for the STOP document
StopValue == json_loads(<<DocStop>>)[2]

\* the text of the last planner call decodes to the STOP plan
PlannerSaidStop ==
    LET i == FirstIndex(llm_response, "<answer>", 1)
        j == IF i = 0 THEN 0 ELSE FirstIndex(llm_response, "</answer>", i + 1)
    IN  /\ i # 0 /\ j # 0
        /\ json_loads(Strip(SubSeq(llm_response, i + 1, j - 1))) = <<TRUE, StopValue>>

\* the text of the last planner call has no <answer>...</answer> region, or
\* the region's content is not valid JSON
PlannerUndecodable ==
    LET i == FirstIndex(llm_response, "<answer>", 1)
        j == IF i = 0 THEN 0 ELSE FirstIndex(llm_response, "</answer>", i + 1)
    IN  \/ i = 0
        \/ j = 0
        \/ ~json_loads(Strip(SubSeq(llm_response, i + 1, j - 1)))[1]

\* the stop condition, read off the pseudo-counts: on axis A some sign's
\* probability reaches t and the three pseudo-counts sum to k or more
AxisSettled(A, t, k) ==
    /\ \E s \in SignSet :
          FracLE(t[1], t[2], alpha[A][s],
                 alpha[A]["+"] + alpha[A]["0"] + alpha[A]["-"])
    /\ FracLE(k[1], k[2], alpha[A]["+"] + alpha[A]["0"] + alpha[A]["-"], Unit)

\* C1: with max_steps = 1 and a planner that never answers STOP, a run on a
\* fresh Agent has called update exactly once and appended exactly one
\* history entry when it reaches its return statement.
C1_OneCycleWhenMaxStepsIsOne ==
    (pc = "terminate" /\ max_steps = 1 /\ ~PlannerSaidStop)
        => (nupdate = 1 /\ Len(history) = 1)

C3_ReturnIsWellFormed ==
    pc = "done" =>
        /\ \E sx \in SignSet, sy \in SignSet, sz \in SignSet :
              result.ans = <<"<answer>", "(", sx, "X", ",", " ", sy, "Y",
                             ",", " ", sz, "Z", ")", "</answer>">>
        /\ DOMAIN result.top_ps = AxisSet
        /\ \A A \in AxisSet :
              /\ result.top_ps[A][1] > 0
              /\ result.top_ps[A][1] <= result.top_ps[A][2]

\* a return on an exhausted budget whose decision differs between the axes
C3_Witness ==
    /\ pc = "done"
    /\ steps = max_steps
    /\ nupdate >= 1
    /\ \E A \in AxisSet : ~AxisSettled(A, tau, kappa_min)
    /\ result.ans = <<"<answer>", "(", "-", "X", ",", " ", "+", "Y",
                      ",", " ", "+", "Z", ")", "</answer>">>

\* C4: a planner response without an <answer>...</answer> region, or with a
\* region that is not JSON, makes run raise ValueError with no capture and
\* no perception call in that step, and alpha, history and steps as they
\* were when the step began.
C4_FormatErrorLeavesStepUntouched ==
    [][(pc = "decode" /\ PlannerUndecodable) =>
          /\ pc' = "raised"
          /\ err' = "ValueError"
          /\ ncapture' = 0
          /\ nperceive' = 0
          /\ [alpha |-> alpha', history |-> history', steps |-> steps']
                = step_start]_vars

\* a format error raised in a later step, after an update changed alpha
C4_Witness ==
    /\ pc = "raised"
    /\ err = "ValueError"
    /\ nupdate >= 1
    /\ alpha # InitAlpha
    /\ ncapture = 0
    /\ Len(history) = nupdate

\* C5: should_stop(tau, kappa_min) returns true exactly when every axis has
\* its top probability >= tau and its pseudo-count sum >= kappa_min.
C5_StopIffEveryAxisSettled ==
    pc = "should_stop_returned" =>
        (stop <=> \A A \in AxisSet : AxisSettled(A, tau, kappa_min))

\* should_stop answered false with X and Y settled and Z alone failing
C5_Witness ==
    /\ pc = "should_stop_returned"
    /\ ~stop
    /\ AxisSettled("X", tau, kappa_min)
    /\ AxisSettled("Y", tau, kappa_min)
    /\ ~AxisSettled("Z", tau, kappa_min)

\* C6: a decoded STOP takes run straight to its return statement with no
\* offsets drawn, no capture, no perception call, no update and no history
\* entry in that step, and the return is computed from the alpha the step
\* began with.
C6_StopGoesStraightToTerminate ==
    /\ [][(pc = "decode" /\ PlannerSaidStop) =>
             /\ pc' = "terminate"
             /\ njitter' = 0 /\ ncapture' = 0 /\ nperceive' = 0
             /\ nupdate' = nupdate
             /\ [alpha |-> alpha', history |-> history', steps |-> steps']
                   = step_start]_vars
    /\ [][(pc = "terminate" /\ PlannerSaidStop) =>
             /\ pc' = "done"
             /\ alpha' = step_start.alpha
             /\ \A A \in AxisSet :
                   /\ result'.top_ps[A][2]
                         = step_start.alpha[A]["+"] + step_start.alpha[A]["0"]
                           + step_start.alpha[A]["-"]
                   /\ \A s \in SignSet :
                         step_start.alpha[A][s] <= result'.top_ps[A][1]
                   /\ \E s \in SignSet :
                         /\ result'.top_ps[A][1] = step_start.alpha[A][s]
                         /\ result'.ans[IF A = "X" THEN 3
                                        ELSE IF A = "Y" THEN 7 ELSE 11] = s]_vars

\* the planner answered STOP in a later step, after an update changed alpha
C6_Witness ==
    /\ pc = "terminate"
    /\ PlannerSaidStop
    /\ nupdate >= 1
    /\ alpha # InitAlpha
    /\ ncapture = 0

\* C7: the answer of a step's history entry is the decoded answer of the
\* perception call on the canonical view, the last view of the step, with
\* offset (0, 0) and the image captured at exactly (az, el).
C7_HistoryKeepsCanonicalAnswer ==
    /\ [][(pc = "perceive" /\ Len(views) = 1) =>
             /\ Head(views) = <<0, 0>>
             /\ img_path = capture(az.n, el.n)
             /\ view_ans' = parse_answer(ans')]_vars
    /\ [][pc = "update" =>
             /\ Len(history') = Len(history) + 1
             /\ history'[Len(history')].answer = parse_answer(ans)
             /\ history'[Len(history')].answer = view_ans]_vars

\* a step whose drawn offset was (0, 0) and whose jittered answer, +X, is
\* not the canonical view's, -X
C7_Witness ==
    /\ pc = "loop"
    /\ nzero = 1
    /\ nperceive = 2
    /\ axis_counts["X"]["+"] = 1
    /\ axis_counts["X"]["-"] = 1
    /\ history[Len(history)].answer["X"] = "-"

\* C8: no BeliefState operation lowers a pseudo-count, none is below lam,
\* and only update changes one.
C8_AlphaNeverDecreases ==
    [][/\ \A A \in AxisSet, s \in SignSet :
             alpha'[A][s] >= alpha[A][s] /\ alpha'[A][s] >= lam * Unit
       /\ (alpha' # alpha => pc' = "update_returned")]_vars

\* a second update adding to what a first one had added on axis X
C8_Witness ==
    /\ pc = "update_returned"
    /\ nupdate = 2
    /\ confidence_scores["X"] > 0
    /\ alpha["X"] # update_axis(InitAlpha["X"], method, axis_counts["X"])

\* C9: get_posterior gives, on each axis, for each sign the pseudo-count
\* over the axis's pseudo-count sum, non-negative, the three summing to 1.
C9_PosteriorIsDistribution ==
    LET post == get_posterior(alpha)
    IN  \A A \in AxisSet :
           LET ssum == alpha[A]["+"] + alpha[A]["0"] + alpha[A]["-"]
           IN  /\ DOMAIN post[A] = SignSet
               /\ \A s \in SignSet :
                     /\ post[A][s][2] = ssum
                     /\ post[A][s][1] = alpha[A][s]
                     /\ post[A][s][1] >= 0
               /\ post[A]["+"][1] + post[A]["0"][1] + post[A]["-"][1]
                     = post[A]["+"][2]
               /\ post[A]["+"][2] > 0

\* get_posterior returned a posterior that is not uniform on axis X
C9_Witness ==
    /\ pc = "get_posterior_returned"
    /\ nupdate >= 1
    /\ result.top_ps["X"]["+"] # result.top_ps["X"]["0"]
    /\ result.top_ps = get_posterior(alpha)

\* C10: update with an all-zero tally on an axis returns confidence 0 for
\* the axis and leaves the axis's pseudo-counts as they were, whatever the
\* other axes' tallies, under both methods.
C10_ZeroTallyLeavesAxisUnchanged ==
    [][nupdate' = nupdate + 1 =>
          \A A \in AxisSet :
             (\A s \in SignSet : axis_counts'[A][s] = 0) =>
                 confidence_scores'[A] = 0 /\ alpha'[A] = alpha[A]]_vars

\* an update with no votes on X and votes on Y, X holding earlier evidence
C10_Witness ==
    /\ pc = "update_returned"
    /\ nupdate = 2
    /\ axis_counts["X"] = ZeroTally
    /\ confidence_scores["X"] = 0
    /\ confidence_scores["Y"] > 0
    /\ alpha["X"] # InitAlpha["X"]

FirstRegion(t) ==
    LET opens == {i \in 1..Len(t) :
                     /\ t[i] = "<answer>"
                     /\ \E j \in (i + 1)..Len(t) : t[j] = "</answer>"}
        i == CHOOSE x \in opens : \A k \in opens : x <= k
        j == CHOOSE y \in (i + 1)..Len(t) :
                 /\ t[y] = "</answer>"
                 /\ \A k \in (i + 1)..(y - 1) : t[k] # "</answer>"
    IN  IF opens = {} THEN <<0, 0>> ELSE <<i, j>>

\* what stands between the tags of the first region
RegionContent(t) == SubSeq(t, FirstRegion(t)[1] + 1, FirstRegion(t)[2] - 1)

\* the comma-separated tokens of a text, each trimmed
CommaTokens(t) ==
    LET cuts == {0, Len(t) + 1} \cup {i \in 1..Len(t) : t[i] = ","}
        spans == {ab \in cuts \X cuts :
                     /\ ab[1] < ab[2]
                     /\ \A k \in cuts : ~(ab[1] < k /\ k < ab[2])}
    IN  {Strip(SubSeq(t, ab[1] + 1, ab[2] - 1)) : ab \in spans}

\* C12: parse_answer_json raises the format error, and returns nothing,
\* when the response has no <answer>...</answer> region or the region's
\* content is not valid JSON; otherwise it returns the decoded value.
C12_ParseAnswerJsonRaisesOrDecodes ==
    pc = "parse_answer_json_returned" =>
        IF \/ FirstRegion(response) = <<0, 0>>
           \/ ~json_loads(Strip(RegionContent(response)))[1]
        THEN err = "ValueError" /\ result = NoResult
        ELSE /\ err = ""
             /\ result = json_loads(Strip(RegionContent(response)))[2]

\* the format error raised for a response that has both tags, in order,
\* around something that is not JSON
C12_Witness ==
    /\ pc = "parse_answer_json_returned"
    /\ err = "ValueError"
    /\ result = NoResult
    /\ FirstRegion(response) # <<0, 0>>
    /\ RegionContent(response) # <<>>

\* C13: check_answer returns true exactly when every axis of the decoded
\* response has the sign the decoded ground truth gives that axis; a
\* response decoding to no axis is accepted, and an axis of the response
\* that the ground truth lacks makes the result false.
C13_CheckAnswerComparesPresentAxes ==
    pc = "check_answer_returned" =>
        LET candidate == parse_answer(response)
            truth == parse_answer(groundtruth)
        IN  /\ result = \A A \in DOMAIN candidate :
                           A \in DOMAIN truth /\ truth[A] = candidate[A]
            /\ (DOMAIN candidate = {} => result = TRUE)
            /\ (DOMAIN candidate \ DOMAIN truth # {} => result = FALSE)

\* check_answer returned false for a response that agrees with the ground
\* truth on every axis both have and names an axis the ground truth lacks
C13_Witness ==
    /\ pc = "check_answer_returned"
    /\ result = FALSE
    /\ LET candidate == parse_answer(response)
           truth == parse_answer(groundtruth)
       IN  /\ DOMAIN candidate \cap DOMAIN truth # {}
           /\ \A A \in DOMAIN candidate \cap DOMAIN truth :
                 candidate[A] = truth[A]
           /\ DOMAIN candidate \ DOMAIN truth # {}

\* C14: parse_answer gives back each of the 27 decisions from the text run
\* formats it into, <answer>(sX, sY, sZ)</answer>, and from the untagged
\* text (sX, sY, sZ).
C14_FormatThenParseIsIdentity ==
    pc = "parse_answer_returned" =>
        \A d \in Decisions :
           (response = FormatAnswer(d) \/ response = UntaggedAnswer(d))
              => /\ DOMAIN result = AxisSet
                 /\ \A A \in AxisSet : result[A] = d[A]

\* the untagged text (+X, -Y, 0Z) decoded to X '+', Y '-', Z '0'
C14_Witness ==
    /\ pc = "parse_answer_returned"
    /\ response = <<"(", "+", "X", ",", " ", "-", "Y", ",", " ", "0", "Z", ")">>
    /\ DOMAIN result = AxisSet
    /\ result["X"] = "+" /\ result["Y"] = "-" /\ result["Z"] = "0"

\* C15: parse_answer decodes the content of the first <answer>...</answer>
\* region when the text has one and the whole trimmed text otherwise, one
\* enclosing pair of parentheses removed: the mapping it returns has
\* exactly the axes for which some comma-separated token is a sign
\* followed by the axis letter, each with the sign of such a token.
C15_ParseAnswerDecodesFirstRegion ==
    pc = "parse_answer_returned" =>
        LET content == Strip(IF FirstRegion(response) = <<0, 0>> THEN response
                             ELSE RegionContent(response))
            inner == IF Len(content) >= 2 /\ content[1] = "("
                        /\ content[Len(content)] = ")"
                     THEN SubSeq(content, 2, Len(content) - 1)
                     ELSE content
        IN  /\ DOMAIN result
                  = {A \in AxisSet :
                        \E s \in SignSet : <<s, A>> \in CommaTokens(inner)}
            /\ \A A \in DOMAIN result : <<result[A], A>> \in CommaTokens(inner)

\* the largest of a tally's three counts
Majority(c) == Max(c["+"], Max(c["0"], c["-"]))

\* C16: in the scenario, wilson weighting and the scenario's tally given to
\* every update, once update has been called often enough X and Y each pass
\* both thresholds of should_stop(0.9, 10), top probability >= 0.9 and
\* pseudo-count sum >= 10, and the decision is X '+', Y '0'.
C16_ScenarioSettlesXAndY ==
    (/\ axis_counts = ScenarioTally
     /\ method = "wilson"
     /\ nupdate = MaxRepeats
     /\ pc = "should_stop_returned")
        => /\ AxisSettled("X", <<9, 10>>, <<10, 1>>)
           /\ AxisSettled("Y", <<9, 10>>, <<10, 1>>)
           /\ result.ans["X"] = "+"
           /\ result.ans["Y"] = "0"

\* C17: in the scenario the split axis Z gets confidence 0 from every
\* update, its pseudo-counts stay at the prior, and should_stop(0.9, 10)
\* answers false every time.
C17_SplitAxisBlocksStop ==
    (axis_counts = ScenarioTally /\ method = "wilson") =>
        /\ alpha["Z"] = InitAlpha["Z"]
        /\ (pc = "update_returned" => confidence_scores["Z"] = 0)
        /\ (pc = "should_stop_returned" => stop = FALSE)

\* should_stop answered false after the last update of the scenario, X
\* holding ten or more pseudo-counts and Z still the prior
C17_Witness ==
    /\ axis_counts = ScenarioTally
    /\ method = "wilson"
    /\ pc = "should_stop_returned"
    /\ nupdate = MaxRepeats
    /\ stop = FALSE
    /\ FracLE(10, 1, alpha["X"]["+"] + alpha["X"]["0"] + alpha["X"]["-"], Unit)
    /\ alpha["Z"] = InitAlpha["Z"]

\* C18: the confidence update returns for an axis is at least 0 and at
\* most 1, under both methods, and 0 for an axis without votes.
C18_ConfidenceInUnitInterval ==
    pc = "update_returned" =>
        \A A \in AxisSet :
           /\ confidence_scores[A] >= 0
           /\ confidence_scores[A] <= ONE
           /\ (/\ axis_counts[A]["+"] = 0
               /\ axis_counts[A]["0"] = 0
               /\ axis_counts[A]["-"] = 0) => confidence_scores[A] = 0

\* an update under the entropy method returned a confidence strictly
\* between 0 and 1 for a tally that is not unanimous
C18_Witness ==
    /\ pc = "update_returned"
    /\ method = "entropy"
    /\ Majority(axis_counts["X"]) < TallyN(axis_counts["X"])
    /\ confidence_scores["X"] > 0
    /\ confidence_scores["X"] < ONE

\* C19: among the tallies of one total n >= 1 the wilson confidence does
\* not decrease as the majority count grows, and so it is the same for two
\* tallies with the same total and majority count.
C19_WilsonMonotoneInMajority ==
    (pc = "update_returned" /\ method = "wilson") =>
        \A A \in AxisSet :
           TallyN(axis_counts[A]) >= 1 =>
              \A c \in TalliesOfTotal(TallyN(axis_counts[A])) :
                 /\ Majority(axis_counts[A]) <= Majority(c)
                       => confidence_scores[A] <= wilson_neff(c)[2]
                 /\ Majority(axis_counts[A]) = Majority(c)
                       => confidence_scores[A] = wilson_neff(c)[2]

\* the scenario's update: majority 5, 9 and 10 of ten votes, the confidence
\* rising from 0 with the majority
C19_Witness ==
    /\ pc = "update_returned"
    /\ method = "wilson"
    /\ axis_counts = ScenarioTally
    /\ confidence_scores["Z"] = 0
    /\ confidence_scores["Z"] < confidence_scores["X"]
    /\ confidence_scores["X"] < confidence_scores["Y"]

\* C20: generate_jitter_offsets(m, r_az, r_el) returns m pairs, none for
\* m = 0, each within [-r_az, r_az] x [-r_el, r_el]; run evaluates the
\* canonical view after them, also when m = 0: a step makes m + 1 captures
\* and m + 1 perception calls, and with m = 0 the one capture is at (az, el).
C20_JitterOffsetsThenCanonicalView ==
    /\ [][(pc = "decode" /\ pc' = "capture") =>
             /\ njitter' = jitter_size
             /\ Len(views') = jitter_size + 1
             /\ \A i \in 1..jitter_size :
                   /\ 0 - r_az <= views'[i][1] /\ views'[i][1] <= r_az
                   /\ 0 - r_el <= views'[i][2] /\ views'[i][2] <= r_el
             /\ views'[jitter_size + 1] = <<0, 0>>]_vars
    /\ [][pc' = "update" =>
             ncapture' = jitter_size + 1 /\ nperceive' = jitter_size + 1]_vars
    /\ [][(pc = "capture" /\ pc' = "perceive" /\ jitter_size = 0) =>
             /\ ncapture' = 1
             /\ img_path' = <<az.n, el.n>>]_vars

\* a step with no jitter offset is about to update: the canonical view was
\* captured and perceived, once, and its answer names an axis
C20_Witness ==
    /\ pc = "update"
    /\ jitter_size = 0
    /\ njitter = 0
    /\ ncapture = 1
    /\ nperceive = 1
    /\ DOMAIN view_ans # {}
    /\ \E A \in AxisSet, s \in SignSet : axis_counts[A][s] = 1

\* the position of an axis's sign in the text run returns
SignPos(A) == IF A = "X" THEN 3 ELSE IF A = "Y" THEN 7 ELSE 11

\* C21: when the stop rule holds on the pseudo-counts a step's update
\* leaves, run goes to its return statement and returns the decision of
\* those pseudo-counts with no planner, capture or perception call in
\* between; when it does not hold, run goes back to the loop test, and
\* with steps < max_steps from there to a planner call, nothing else
\* happening on the way.
C21_CheckDecidesReturnOrPropose ==
    /\ [][pc = "update" =>
             /\ pc' = IF (\A A \in AxisSet : AxisSettled(A, tau, kappa_min))'
                      THEN "terminate" ELSE "loop"
             /\ stop' = (pc' = "terminate")
             /\ ncapture' = ncapture /\ nperceive' = nperceive]_vars
    /\ [][(pc = "terminate" /\ stop) =>
             /\ pc' = "done"
             /\ alpha' = alpha
             /\ ncapture' = ncapture /\ nperceive' = nperceive
             /\ \A A \in AxisSet : \E s \in SignSet :
                   /\ \A q \in SignSet : alpha[A][q] <= alpha[A][s]
                   /\ result'.ans[SignPos(A)] = s
                   /\ result'.top_ps[A]
                         = <<alpha[A][s], alpha[A]["+"] + alpha[A]["0"]
                                             + alpha[A]["-"]>>]_vars
    /\ [][(pc = "loop" /\ nupdate >= 1 /\ steps < max_steps) =>
             /\ ~stop
             /\ pc' = "propose"
             /\ alpha' = alpha /\ history' = history
             /\ ncapture' = 0 /\ nperceive' = 0]_vars
    /\ [][pc = "propose" =>
             \/ pc' = "decode" /\ llm_response' \in PlannerResponses
             \/ pc' = "raised" /\ err' = "CollaboratorFailure"]_vars

\* run returned on the stop rule with budget left: its first update
\* settled every axis, Z on '0'
C21_Witness ==
    /\ pc = "done"
    /\ nupdate = 1
    /\ steps < max_steps
    /\ \A A \in AxisSet : AxisSettled(A, tau, kappa_min)
    /\ history[1].confidence["Z"] > 0
    /\ result.ans[SignPos("Z")] = "0"

\* C22: a VOTE phase with jitter count m walks a list of m + 1 views, the
\* drawn offsets and then (0, 0): each capture is at (az + daz, el + del)
\* of the view at the head of the list and is followed by the perception
\* call on the image it returned, which takes that view off the list; so
\* captures and perception calls alternate, m + 1 of each, the last capture
\* at exactly (az, el).
C22_CaptureThenPerceivePerView ==
    /\ [][(pc = "decode" /\ pc' = "capture") =>
             /\ Len(views') = jitter_size + 1
             /\ views'[Len(views')] = <<0, 0>>
             /\ ncapture' = 0 /\ nperceive' = 0]_vars
    /\ [][(pc = "capture" /\ pc' = "perceive") =>
             /\ img_path' = <<az.n + Head(views)[1], el.n + Head(views)[2]>>
             /\ (Len(views) = 1 => img_path' = <<az.n, el.n>>)
             /\ ncapture' = ncapture + 1
             /\ nperceive' = nperceive
             /\ views' = views]_vars
    /\ [][(pc = "perceive" /\ pc' # "raised") =>
             /\ img_path = <<az.n + Head(views)[1], el.n + Head(views)[2]>>
             /\ nperceive' = nperceive + 1
             /\ ncapture' = ncapture
             /\ views' = Tail(views)
             /\ pc' = IF Len(views) = 1 THEN "update" ELSE "capture"]_vars
    /\ [](pc = "capture" =>
             /\ ncapture = nperceive
             /\ ncapture + Len(views) = jitter_size + 1)
    /\ [](pc = "perceive" =>
             /\ ncapture = nperceive + 1
             /\ ncapture + Len(views) = jitter_size + 2)
    /\ [](pc = "update" =>
             /\ views = <<>>
             /\ ncapture = jitter_size + 1
             /\ nperceive = jitter_size + 1)

\* the canonical view has been captured at (az, el) and awaits its
\* perception call, after the capture at a drawn offset away from (0, 0)
\* and the perception call on that image
C22_Witness ==
    /\ pc = "perceive"
    /\ jitter_size = 1
    /\ nzero = 0
    /\ Len(views) = 1
    /\ ncapture = 2
    /\ nperceive = 1
    /\ ans # <<>>
    /\ img_path = <<az.n, el.n>>

\* C23: update is called once per step that votes, and only when all
\* m + 1 perception responses of the step are in the tally; from the
\* step's planner call up to that update the pseudo-counts and the history
\* stay as the step found them.
C23_UpdateOnlyOnFullTally ==
    /\ [][nupdate' # nupdate =>
             /\ pc = "update"
             /\ nupdate' = nupdate + 1
             /\ steps' = steps + 1
             /\ views = <<>>
             /\ nperceive = jitter_size + 1
             /\ alpha = step_start.alpha
             /\ history = step_start.history
             /\ \A A \in AxisSet : TallyN(axis_counts[A]) <= nperceive]_vars
    /\ [][(pc \in {"propose", "decode", "capture", "perceive"}) =>
             /\ alpha' = alpha
             /\ history' = history
             /\ nupdate' = nupdate]_vars
    /\ [](pc \in {"propose", "decode", "capture", "perceive", "update"} =>
             /\ alpha = step_start.alpha
             /\ history = step_start.history
             /\ steps = step_start.steps)
    /\ [](pc \notin Ended => nupdate = steps - 1 /\ nupdate = Len(history))
    /\ [][pc = "update" => pc' \in {"loop", "terminate"}]_vars

\* the second step is about to update: both of its perception responses
\* are tallied, and the pseudo-counts are still those the first step left
C23_Witness ==
    /\ pc = "update"
    /\ jitter_size = 1
    /\ nupdate = 1
    /\ nperceive = 2
    /\ alpha # InitAlpha
    /\ alpha = step_start.alpha
    /\ TallyN(axis_counts["X"]) = 2
    /\ TallyN(axis_counts["Z"]) = 1

\* C24: a capture or a perception call that fails, however many votes the
\* step has collected, ends run with that failure: the call is not made
\* again, nothing follows, and the pseudo-counts, the history and the step
\* counter are those of the start of the step, the step's tally gone with
\* run's locals.
C24_VoteFailureDiscardsStep ==
    /\ [][pc = "capture" =>
             /\ pc' \in {"perceive", "raised"}
             /\ ncapture' = ncapture + 1]_vars
    /\ [][pc = "perceive" =>
             /\ pc' \in {"capture", "update", "raised"}
             /\ nperceive' = nperceive + 1]_vars
    /\ [][(pc \in {"capture", "perceive"} /\ pc' = "raised") =>
             /\ err' = "CollaboratorFailure"
             /\ result' = NoResult
             /\ nupdate' = nupdate
             /\ [alpha |-> alpha', history |-> history', steps |-> steps']
                   = step_start
             /\ Len(history') = nupdate
             /\ axis_counts' = ZeroCounts]_vars
    /\ [][pc # "raised"]_vars

\* the second perception call of a later step failed: the first vote of
\* the step was in the tally, an earlier step had moved the pseudo-counts
C24_Witness ==
    /\ pc = "raised"
    /\ err = "CollaboratorFailure"
    /\ ncapture = 2
    /\ nperceive = 2
    /\ nupdate >= 1
    /\ alpha # InitAlpha
    /\ alpha = step_start.alpha
    /\ steps = step_start.steps

\* C25: in an update, an axis with n votes and n_eff = n * confidence > 0
\* gets n_eff * (k_s + lam) / (n + 3 lam) added to the pseudo-count of each
\* sign s, so that its pseudo-count sum grows by exactly n_eff, which is at
\* most n; an axis with n_eff = 0 keeps its pseudo-counts.  (Pseudo-counts
\* are counted in 1/Unit, n_eff in 1/ONE, Unit = ONE * DEN.)
C25_UpdateAddsWeightedShares ==
    [][nupdate' = nupdate + 1 =>
          \A A \in AxisSet :
             LET c == axis_counts'[A]
                 n == c["+"] + c["0"] + c["-"]
                 n_eff == n * confidence_scores'[A]
             IN  IF n_eff > 0
                 THEN /\ \A s \in SignSet :
                            (alpha'[A][s] - alpha[A][s]) * (n + 3 * lam)
                               = n_eff * (c[s] + lam) * DEN
                      /\ (alpha'[A]["+"] + alpha'[A]["0"] + alpha'[A]["-"])
                            - (alpha[A]["+"] + alpha[A]["0"] + alpha[A]["-"])
                            = n_eff * DEN
                      /\ n_eff <= n * ONE
                 ELSE /\ n_eff = 0
                      /\ alpha'[A] = alpha[A]]_vars

\* the scenario's tally was given twice under the Wilson method: Z, split
\* 5 to 5, is at the prior, X has grown by twice its n_eff, less than its
\* 20 votes
C25_Witness ==
    /\ pc = "update_returned"
    /\ method = "wilson"
    /\ nupdate = 2
    /\ axis_counts = ScenarioTally
    /\ confidence_scores["Z"] = 0
    /\ alpha["Z"] = InitAlpha["Z"]
    /\ confidence_scores["X"] > 0
    /\ confidence_scores["X"] < ONE
    /\ alpha["X"]["+"] + alpha["X"]["0"] + alpha["X"]["-"]
          = 3 * lam * Unit + 2 * 10 * confidence_scores["X"] * DEN

\* the comma-separated tokens of an answer under the sign-tuple contract:
\* those of its first <answer>...</answer> region, or of the whole text
\* when it has none, one enclosing pair of parentheses removed
AnswerTokens(t) ==
    LET content == Strip(IF FirstRegion(t) = <<0, 0>> THEN t
                         ELSE RegionContent(t))
        inner == IF Len(content) >= 2 /\ content[1] = "("
                    /\ content[Len(content)] = ")"
                 THEN SubSeq(content, 2, Len(content) - 1)
                 ELSE content
    IN  CommaTokens(inner)

\* the signs an answer gives to axis A in well-formed tokens
NamedSigns(t, A) == {s \in SignSet : <<s, A>> \in AnswerTokens(t)}

\* C26: a perception response adds one vote to each axis it names with a
\* well-formed token, to the sign of such a token and whatever the focus
\* set, and none to an axis it does not name; so no axis's tally total
\* exceeds the number of responses, which is at most jitter_size + 1; a
\* response naming no axis changes no tally and the vote loop goes on.
C26_OneVotePerNamedAxis ==
    /\ [][(pc = "perceive" /\ pc' # "raised") =>
             /\ \A A \in AxisSet :
                   IF NamedSigns(ans', A) = {}
                   THEN axis_counts'[A] = axis_counts[A]
                   ELSE \E s \in NamedSigns(ans', A) :
                           axis_counts'[A]
                              = [axis_counts[A] EXCEPT ![s] = @ + 1]
             /\ pc' \in {"capture", "update"}]_vars
    /\ [](pc \in {"capture", "perceive", "update"} =>
             \A A \in AxisSet :
                /\ TallyN(axis_counts[A]) <= nperceive
                /\ TallyN(axis_counts[A]) <= jitter_size + 1)

\* the place of a sign in the order '+', '0', '-' of the posterior's dict
SignRank(s) == CHOOSE i \in 1..Len(Signs) : Signs[i] = s

\* C27: the sign run returns for an axis has a maximal pseudo-count, and
\* every sign before it in the order '+', '0', '-' a strictly smaller one;
\* so with the pseudo-counts at the prior, as after a STOP on the first
\* turn or after steps that all had confidence 0 on every axis, run
\* returns <answer>(+X, +Y, +Z)</answer> with probability 1/3 on each axis.
C27_TiesGoToFirstSign ==
    /\ [](pc = "done" =>
             \A A \in AxisSet :
                LET s == result.ans[SignPos(A)]
                IN  /\ result.top_ps[A]
                          = <<alpha[A][s], alpha[A]["+"] + alpha[A]["0"]
                                              + alpha[A]["-"]>>
                    /\ \A q \in SignSet :
                          /\ alpha[A][q] <= alpha[A][s]
                          /\ SignRank(q) < SignRank(s)
                                => alpha[A][q] < alpha[A][s])
    /\ [](pc \notin Ended =>
             ((\A i \in 1..Len(history) : \A A \in AxisSet :
                  history[i].confidence[A] = 0) => alpha = InitAlpha))
    /\ [][(pc = "decode" /\ steps = 1 /\ PlannerSaidStop) =>
             alpha' = InitAlpha /\ pc' = "terminate"]_vars
    /\ [](pc = "done" /\ alpha = InitAlpha =>
             /\ result.ans = <<"<answer>", "(", "+", "X", ",", " ", "+", "Y",
                               ",", " ", "+", "Z", ")", "</answer>">>
             /\ \A A \in AxisSet :
                   /\ 3 * result.top_ps[A][1] = result.top_ps[A][2]
                   /\ result.top_ps[A][1] > 0)

\* the planner answered STOP on the first turn of a run with budget, and
\* run returned the prior decision
C27_Witness ==
    /\ pc = "done"
    /\ max_steps >= 2
    /\ steps = 1
    /\ nupdate = 0
    /\ alpha = InitAlpha
    /\ result.ans[SignPos("X")] = "+"
    /\ result.ans[SignPos("Z")] = "+"
    /\ result.top_ps["Y"] = <<lam * Unit, 3 * lam * Unit>>

\* the largest number of votes the client's tally gives an axis
MostVotes == Max(TallyN(axis_counts["X"]),
                 Max(TallyN(axis_counts["Y"]), TallyN(axis_counts["Z"])))

\* C28: when every update gives each axis at most N >= 1 votes, every
\* posterior probability of every axis stays strictly below
\* (N + lam) / (N + 3 lam), under either confidence method and after any
\* number of updates; for N <= 17 that bound is at most 9/10, and
\* should_stop(0.9, 10) never answers true.
C28_PosteriorBelowSmoothedShare ==
    /\ MostVotes >= 1 =>
          \A A \in AxisSet, s \in SignSet :
             ~FracLE(MostVotes + lam, MostVotes + 3 * lam, alpha[A][s],
                     alpha[A]["+"] + alpha[A]["0"] + alpha[A]["-"])
    /\ MostVotes <= 17 =>
          /\ 10 * (MostVotes + lam) <= 9 * (MostVotes + 3 * lam)
          /\ \A A \in AxisSet, s \in SignSet :
                ~FracLE(9, 10, alpha[A][s],
                        alpha[A]["+"] + alpha[A]["0"] + alpha[A]["-"])
          /\ pc = "should_stop_returned" => ~stop

\* the scenario's tally of 10 votes an axis was given MaxRepeats times
\* under the Wilson method: Y's top probability has passed 3/4 on its way
\* to the bound 11/13, and should_stop(0.9, 10) has answered false
C28_Witness ==
    /\ pc = "should_stop_returned"
    /\ ~stop
    /\ method = "wilson"
    /\ axis_counts = ScenarioTally
    /\ nupdate = MaxRepeats
    /\ FracLE(3, 4, alpha["Y"]["0"],
              alpha["Y"]["+"] + alpha["Y"]["0"] + alpha["Y"]["-"])
    /\ FracLE(10, 1, alpha["Y"]["+"] + alpha["Y"]["0"] + alpha["Y"]["-"],
              Unit)

\* C29: under the Wilson method an axis with a single vote gets confidence
\* 0; so in a run with jitter_size = 0, where an axis has at most the
\* canonical view's vote, the pseudo-counts are at the prior throughout,
\* every history entry has confidence 0 on every axis, and run returns the
\* prior decision with probability 1/3 on every axis.
C29_SingleVoteHasNoWeight ==
    /\ [][(pc = "update" /\ method = "wilson") =>
             \A A \in AxisSet :
                TallyN(axis_counts[A]) = 1 =>
                   /\ confidence_scores'[A] = 0
                   /\ alpha'[A] = alpha[A]]_vars
    /\ [](jitter_size = 0 =>
             /\ alpha = InitAlpha
             /\ \A A \in AxisSet : TallyN(axis_counts[A]) <= 1
             /\ \A i \in 1..Len(history) : \A A \in AxisSet :
                   history[i].confidence[A] = 0)
    /\ [](jitter_size = 0 /\ pc = "done" =>
             /\ result.ans = <<"<answer>", "(", "+", "X", ",", " ", "+", "Y",
                               ",", " ", "+", "Z", ")", "</answer>">>
             /\ \A A \in AxisSet :
                   result.top_ps[A] = <<lam * Unit, 3 * lam * Unit>>)

\* a run without jitter used its budget on steps whose canonical view was
\* answered with a sign for every axis, and returned the prior decision
C29_Witness ==
    /\ pc = "done"
    /\ jitter_size = 0
    /\ max_steps = MaxSteps
    /\ nupdate = MaxSteps - 1
    /\ \A i \in 1..Len(history) : DOMAIN history[i].answer = AxisSet
    /\ history[1].answer["X"] = "+"
    /\ alpha = InitAlpha
    /\ result.ans[SignPos("Y")] = "+"

\* the JSON value in the <answer>...</answer> region of the planner text
\* held at the decode point; JNull when the text does not decode
PlannerValue ==
    LET i == FirstIndex(llm_response, "<answer>", 1)
        j == IF i = 0 THEN 0 ELSE FirstIndex(llm_response, "</answer>", i + 1)
    IN  IF i = 0 \/ j = 0 THEN JNull
        ELSE json_loads(Strip(SubSeq(llm_response, i + 1, j - 1)))[2]

\* the planner text decodes to a JSON object that is no usable plan: it has
\* no "action", or it is not a STOP and its "view" is missing, null or
\* without "az" or "el", or it has no "axis"
UnusablePlan ==
    LET v == PlannerValue
    IN  /\ ~PlannerUndecodable
        /\ v.t = "obj"
        /\ \/ "action" \notin DOMAIN v.o
           \/ /\ v.o["action"] # JStr("STOP")
              /\ \/ "view" \notin DOMAIN v.o
                 \/ "axis" \notin DOMAIN v.o
                 \/ v.o["view"].t # "obj"
                 \/ /\ v.o["view"].t = "obj"
                    /\ {"az", "el"} \ DOMAIN v.o["view"].o # {}

\* C30: a planner answer that is valid JSON but no usable plan makes run
\* fail in the decode step, before any offset is drawn and any capture or
\* perception call of the step is made, with an error other than the
\* parser's ValueError, the pseudo-counts, the history and the step counter
\* as the step found them; a step that goes on to the vote loop has the
\* az and el of the plan, never a default.
C30_UnusablePlanFailsBeforeVote ==
    /\ [][(pc = "decode" /\ UnusablePlan) =>
             /\ pc' = "raised"
             /\ err' \in {"KeyError", "TypeError"}
             /\ err' # "ValueError"
             /\ njitter' = 0 /\ ncapture' = 0 /\ nperceive' = 0
             /\ nupdate' = nupdate
             /\ [alpha |-> alpha', history |-> history', steps |-> steps']
                   = step_start]_vars
    /\ [](pc \in {"capture", "perceive", "update"} =>
             /\ ~UnusablePlan
             /\ az.t = "num" /\ el.t = "num"
             /\ az = PlannerValue.o["view"].o["az"]
             /\ el = PlannerValue.o["view"].o["el"]
             /\ focus_axis = PlannerValue.o["axis"])

\* a plan without a needed field ended a later step of a run, after an
\* update had moved the pseudo-counts
C30_Witness ==
    /\ pc = "raised"
    /\ err = "KeyError"
    /\ nupdate >= 1
    /\ alpha # InitAlpha
    /\ alpha = step_start.alpha
    /\ Len(history) = nupdate
    /\ njitter = 0
    /\ ncapture = 0

====
